---- MODULE Spec2Model ----
(***************************************************************************)
(* Money Monitor backend (src/money-monitor-backend/main.py).              *)
(*                                                                         *)
(* The state is the external document store the handlers read and write    *)
(* (the per-user expense collections and the merchants collection), the    *)
(* wall clock that add_expense reads, the errors the store is about to     *)
(* raise, and the response of the last request.                            *)
(*                                                                         *)
(* Python strings that the code lowercases, concatenates, slices or        *)
(* compares by order (user ids, item / merchant names, dates) are          *)
(* sequences of ASCII codes; strings that are only tested for equality or  *)
(* truthiness (type, category) are TLA+ strings, "" standing for both None *)
(* and the empty string (the code tests them with `if type`).              *)
(* Amounts are integers, thousandths of the currency unit, and sums are    *)
(* exact; round(x, 2) yields hundredths.  Each specification below drives  *)
(* the handlers of one group of endpoints with inputs from small sets.     *)
(***************************************************************************)
EXTENDS Integers, Sequences, FiniteSets, TLC

VARIABLES
    expenses,   \* userId -> the user's expense documents, in the order stream() yields them
    merchants,  \* collection 'merchants': a set of documents, at most one per document id
    now,        \* index into Timeline: the wall clock read by datetime.now()
    resp,       \* the response of the last request handled on its own
    lastSave,   \* history of the save_merchant requests (see RecordSave)
    outage,     \* the errors the store raises for the next calls made to it, in order
    requests    \* the requests being handled side by side, each at its own step

vars == <<expenses, merchants, now, resp, lastSave, outage, requests>>

----------------------------------------------------------------------------
(* Strings as sequences of ASCII codes *)

\* str.lower() on ASCII text: 'A'..'Z' (65..90) map to 'a'..'z'
Lower(s) == [i \in DOMAIN s |-> IF s[i] \in 65..90 THEN s[i] + 32 ELSE s[i]]

\* Python's str < str: lexicographic on code points, a proper prefix is smaller
RECURSIVE StrLess(_, _)
StrLess(s, t) ==
    IF t = <<>> THEN FALSE
    ELSE IF s = <<>> THEN TRUE
    ELSE IF Head(s) # Head(t) THEN Head(s) < Head(t)
    ELSE StrLess(Tail(s), Tail(t))

\* s[:n]
Prefix(s, n) == SubSeq(s, 1, IF Len(s) < n THEN Len(s) ELSE n)

\* two decimal digits, zero padded
Digits2(n) == <<48 + (n \div 10), 48 + (n % 10)>>

\* four decimal digits, zero padded
Digits4(n) == Digits2(n \div 100) \o Digits2(n % 100)

\* datetime.isoformat() of an instant with microsecond 0: YYYY-MM-DDTHH:MM:SS
isoformat(dt) ==
    Digits4(dt.year) \o <<45>> \o Digits2(dt.month) \o <<45>> \o Digits2(dt.day)
        \o <<84>> \o Digits2(dt.hour) \o <<58>> \o Digits2(dt.minute)
        \o <<58>> \o Digits2(dt.second)

----------------------------------------------------------------------------
(* Input domains *)

U1   == <<117, 49>>                                   \* "u1"
U1X  == <<117, 49, 95, 120>>                          \* "u1_x"
Users == {U1, U1X}

HDFC      == <<72, 68, 70, 67, 32, 66, 97, 110, 107>>            \* "HDFC Bank"
hdfc      == <<104, 100, 102, 99, 32, 98, 97, 110, 107>>         \* "hdfc bank"
X_HDFC    == <<120, 95, 72, 68, 70, 67, 32, 66, 97, 110, 107>>   \* "x_HDFC Bank"
\* merchant names of the save requests, and of the lookup requests
SavedNames == {HDFC, X_HDFC}
MerchantNames == {HDFC, hdfc, X_HDFC}

Fuel  == <<70, 117, 101, 108>>                        \* "Fuel"
fuel  == <<102, 117, 101, 108>>                       \* "fuel"
Shell == <<83, 104, 101, 108, 108>>                   \* "Shell"

NoType == ""                                          \* type omitted (None) or empty

\* instants the wall clock shows, in order
Timeline ==
    << [year |-> 2024, month |-> 1,  day |-> 15, hour |-> 10, minute |-> 0,  second |-> 0],
       [year |-> 2025, month |-> 3,  day |-> 1,  hour |-> 9,  minute |-> 30, second |-> 0],
       [year |-> 2025, month |-> 3,  day |-> 2,  hour |-> 18, minute |-> 45, second |-> 10],
       [year |-> 2025, month |-> 12, day |-> 31, hour |-> 10, minute |-> 0,  second |-> 0] >>

\* how many times the clock advances
MaxTicks == 1

----------------------------------------------------------------------------
(* The document store *)

\* number of expense documents in the whole store
RECURSIVE TotalDocsOver(_, _)
TotalDocsOver(store, us) ==
    IF us = {} THEN 0
    ELSE LET u == CHOOSE x \in us : TRUE
         IN  Len(store[u]) + TotalDocsOver(store, us \ {u})

TotalDocs == TotalDocsOver(expenses, DOMAIN expenses)

\* a write under an id that may already be taken: the document at position p, if
\* there is one, is replaced
InsertOver(seq, p, doc) ==
    IF p <= Len(seq) THEN [seq EXCEPT ![p] = doc] ELSE Append(seq, doc)

\* the number of requests that can be in progress side by side
MaxRequests == 3

\* a write under an id made from the date: it replaces the documents of that date
InsertKeyedByDate(seq, p, doc) ==
    LET kept == SelectSeq(seq, LAMBDA d : d.date # doc.date)
        k == IF p <= Len(kept) THEN p ELSE Len(kept) + 1
    IN  SubSeq(kept, 1, k - 1) \o <<doc>> \o SubSeq(kept, k, Len(kept))

\* seq with doc placed at position p (1..Len+1): the auto-generated document id
\* decides where stream() lists the new document among the old ones
InsertAt(seq, p, doc) == SubSeq(seq, 1, p - 1) \o <<doc>> \o SubSeq(seq, p, Len(seq))

Init ==
    /\ expenses = [u \in Users |-> <<>>]
    /\ merchants = {}
    /\ now = 1
    /\ resp = [op |-> "none"]
    /\ lastSave = [saves |-> {}, repeated |-> FALSE]
    /\ outage = <<>>
    /\ requests = [r \in 1..MaxRequests |-> [pc |-> "idle"]]

\* time passes between two requests
Tick ==
    /\ now <= MaxTicks
    /\ now < Len(Timeline)
    /\ now' = now + 1
    /\ UNCHANGED <<expenses, merchants, resp, lastSave, outage, requests>>

\* db.collection_group('expenses'): the expense documents of every user
ExpensesGroup(store, userId) == store[U1] \o store[U1X]

\* db.collection('users').document(userId).collection('expenses'): the documents
\* of the user's expense collection, in stream order; a user document that nothing
\* was stored under has an empty collection, and so has the document with an
\* auto-generated id that document(None) refers to
ExpensesRef(store, userId) == IF userId \in DOMAIN store THEN store[userId] ELSE <<>>

\* the response that a success envelope with an error field would be
ErrorEnvelope(op, userId, e) ==
    [op |-> op, success |-> FALSE, status |-> 200, userId |-> userId, detail |-> e]

\* except Exception as e: raise HTTPException(status_code=400, detail=str(e))
HTTPException(op, userId, e) ==
    [op |-> op, success |-> FALSE, status |-> 400, userId |-> userId, detail |-> e]

\* a handler whose store call raises: the except clause answers, nothing is
\* written, and the error is used up by the one call that met it
Raise(op, userId) ==
    /\ resp' = HTTPException(op, userId, Head(outage))
    /\ outage' = Tail(outage)
    /\ UNCHANGED <<expenses, merchants, now, lastSave, requests>>

----------------------------------------------------------------------------
(* Merchant memory endpoints *)

\* the (category, type) pairs the save requests carry
MerchantDefaults == {<<"banking", "business">>, <<"transport", "personal">>}

\* f"{userId}_{merchant.lower()}"
MerchantDocId(userId, merchant) == userId \o <<95>> \o Lower(merchant)

\* document(id).set(data): create the document or replace it whole
DocSet(coll, id, data) ==
    {d \in coll : d.id # id} \cup {[id |-> id, data |-> data]}

\* document(id).get(): the stored documents with that id (none: doc.exists is False)
DocGet(coll, id) == {d \in coll : d.id = id}

\* the dictionary save_merchant writes; both timestamps are the time of the write
MerchantData(userId, merchant, category, type, t) ==
    [normalizedName |-> Lower(merchant), defaultCategory |-> category,
     defaultType |-> type, userId |-> userId, createdAt |-> t, lastUsed |-> t]

\* a save that, finding the document already there, only refreshes lastUsed with
\* set() and so drops the stored category and type
SaveMerchantTouch(coll, userId, merchant, category, type, t) ==
    LET id == MerchantDocId(userId, merchant)
        data == MerchantData(userId, merchant, category, type, t)
    IN  IF DocGet(coll, id) # {}
        THEN DocSet(coll, id, [data EXCEPT !.defaultCategory = "", !.defaultType = ""])
        ELSE DocSet(coll, id, data)

\* the merchants collection after save_merchant
SaveMerchantStore(coll, userId, merchant, category, type, t) ==
    DocSet(coll, MerchantDocId(userId, merchant),
           MerchantData(userId, merchant, category, type, t))

\* the body lookup_merchant returns
LookupResponse(coll, userId, merchant) ==
    LET found == DocGet(coll, MerchantDocId(userId, merchant))
    IN  IF found # {}
        THEN LET data == (CHOOSE d \in found : TRUE).data
             IN  [op |-> "lookup_merchant", success |-> TRUE, found |-> TRUE,
                  userId |-> userId, merchant |-> merchant,
                  category |-> data.defaultCategory, type |-> data.defaultType]
        ELSE [op |-> "lookup_merchant", success |-> TRUE, found |-> FALSE,
              userId |-> userId, merchant |-> merchant,
              category |-> "", type |-> ""]

\* history of saves: the arguments of the latest save per (userId, lowercased
\* merchant name), and whether the latest save repeated the request before it
RecordSave(hist, userId, merchant, category, type, repeated) ==
    [saves |-> {h \in hist.saves : ~(h.userId = userId /\ h.name = Lower(merchant))}
                  \cup {[userId |-> userId, name |-> Lower(merchant),
                          category |-> category, type |-> type]},
     repeated |-> repeated]

\* the body save_merchant returns
SaveResponse(userId, merchant, category, type) ==
    [op |-> "save_merchant", success |-> TRUE, userId |-> userId,
     merchant |-> merchant, category |-> category, type |-> type]

save_merchant(userId, merchant, category, type) ==
    IF outage # <<>> THEN Raise("save_merchant", userId)
    ELSE /\ merchants' = SaveMerchantStore(merchants, userId, merchant, category, type,
                                           now)
         /\ resp' = SaveResponse(userId, merchant, category, type)
         /\ lastSave' = RecordSave(lastSave, userId, merchant, category, type,
                                   resp = SaveResponse(userId, merchant, category, type))
         /\ UNCHANGED <<expenses, now, outage, requests>>

lookup_merchant(userId, merchant) ==
    IF outage # <<>> THEN Raise("lookup_merchant", userId)
    ELSE /\ resp' = LookupResponse(merchants, userId, merchant)
         /\ UNCHANGED <<expenses, merchants, now, lastSave, outage, requests>>

SaveMerchant(us, names, defaults) ==
    \E u \in us, m \in names, ct \in defaults : save_merchant(u, m, ct[1], ct[2])

LookupMerchant(us, names) ==
    \E u \in us, m \in names : lookup_merchant(u, m)

NextMerchants ==
    \/ SaveMerchant(Users, SavedNames, MerchantDefaults)
    \/ LookupMerchant(Users, MerchantNames)
    \/ Tick

SpecMerchants == Init /\ [][NextMerchants]_vars

----------------------------------------------------------------------------
(* Expense endpoints *)

\* Expense (pydantic model): the request body of add_expense, note and source at
\* their defaults; amount is in thousandths of the currency unit
Expense(item, amount, type, category) ==
    [item |-> item, amount |-> amount, type |-> type, category |-> category,
     note |-> "", source |-> "manual"]

\* the document add_expense stores: the body's fields, date, createdAt and userId
ExpenseData(userId, expense, t) ==
    [item |-> expense.item, amount |-> expense.amount, type |-> expense.type,
     category |-> expense.category, note |-> expense.note, source |-> expense.source,
     date |-> isoformat(Timeline[t]), createdAt |-> t, userId |-> userId]

\* ref.add(expense_data) under users/{userId}/expenses; pos is the place the
\* generated id gives the new document in the collection's stream order
add_expense(userId, expense, pos) ==
    IF outage # <<>> THEN Raise("add_expense", userId)
    ELSE /\ expenses' = [expenses EXCEPT
                            ![userId] = InsertAt(@, pos,
                                                 ExpenseData(userId, expense, now))]
         /\ resp' = [op |-> "add_expense", success |-> TRUE, userId |-> userId,
                     expenseId |-> pos]
         /\ UNCHANGED <<merchants, now, lastSave, outage, requests>>

\* one pass of the loop of get_expense_totals that counts every type that is not
\* business as personal
TotalsStepElse(totals, expense) ==
    [total |-> totals.total + expense.amount,
     personal |-> IF expense.type # "business"
                  THEN totals.personal + expense.amount ELSE totals.personal,
     business |-> IF expense.type = "business"
                  THEN totals.business + expense.amount ELSE totals.business]

\* one pass of the loop of get_expense_totals
TotalsStep(totals, expense) ==
    [total |-> totals.total + expense.amount,
     personal |-> IF expense.type = "personal"
                  THEN totals.personal + expense.amount ELSE totals.personal,
     business |-> IF expense.type = "personal" THEN totals.business
                  ELSE IF expense.type = "business"
                       THEN totals.business + expense.amount ELSE totals.business]

\* the loop of get_expense_totals over the streamed documents
RECURSIVE TotalsLoop(_, _)
TotalsLoop(totals, docs) ==
    IF docs = <<>> THEN totals
    ELSE TotalsLoop(TotalsStep(totals, Head(docs)), Tail(docs))

\* the response of get_expense_totals
TotalsResponse(store, userId) ==
    [op |-> "get_expense_totals", success |-> TRUE, userId |-> userId,
     totals |-> TotalsLoop([total |-> 0, personal |-> 0, business |-> 0],
                           ExpensesRef(store, userId))]

get_expense_totals(userId) ==
    IF outage # <<>> THEN Raise("get_expense_totals", userId)
    ELSE /\ resp' = TotalsResponse(expenses, userId)
         /\ UNCHANGED <<expenses, merchants, now, lastSave, outage, requests>>

\* doc.to_dict() with expense['id'] = doc.id; the id of a document is its place in
\* the stream order of its collection
WithIds(docs) == [i \in 1..Len(docs) |-> [id |-> i] @@ docs[i]]

\* query.where('type', '==', type), applied when a type is given
WhereType(docs, type) ==
    IF type # NoType THEN SelectSeq(docs, LAMBDA d : d.type = type) ELSE docs

\* a is listed before b by order_by('date', direction=DESCENDING): the later date
\* string first, documents of equal date in descending order of document id
Before(a, b) == StrLess(b.date, a.date) \/ (a.date = b.date /\ a.id > b.id)

\* x put at its place in a sequence that is in that order
InsertByDate(seq, x) ==
    LET k == Cardinality({j \in DOMAIN seq : Before(seq[j], x)})
    IN  SubSeq(seq, 1, k) \o <<x>> \o SubSeq(seq, k + 1, Len(seq))

\* the documents in the order of order_by('date', direction=DESCENDING)
RECURSIVE OrderByDateDesc(_)
OrderByDateDesc(docs) ==
    IF docs = <<>> THEN <<>>
    ELSE InsertByDate(OrderByDateDesc(Tail(docs)), Head(docs))

\* the response of get_expenses
GetExpensesResponse(store, userId, type) ==
    LET listed == OrderByDateDesc(WhereType(WithIds(ExpensesRef(store, userId)), type))
    IN  [op |-> "get_expenses", success |-> TRUE, userId |-> userId, filter |-> type,
         count |-> Len(listed), expenses |-> listed]

get_expenses(userId, type) ==
    IF outage # <<>> THEN Raise("get_expenses", userId)
    ELSE /\ resp' = GetExpensesResponse(expenses, userId, type)
         /\ UNCHANGED <<expenses, merchants, now, lastSave, outage, requests>>

\* add_expense requests with their fields drawn from the given sets, while the
\* store holds fewer than max expense documents
AddExpense(us, items, amounts, types, categories, max) ==
    /\ TotalDocs < max
    /\ \E u \in us, i \in items, a \in amounts, t \in types, c \in categories :
          \E pos \in 1..(Len(expenses[u]) + 1) :
              add_expense(u, Expense(i, a, t, c), pos)

GetExpenseTotals(us) == \E u \in us : get_expense_totals(u)

GetExpenses(us, types) == \E u \in us, t \in types : get_expenses(u, t)

\* expense types of the totals scenarios: the two the model names and another one
TotalsTypes == {"personal", "business", "shared"}

\* store size of the totals scenarios
MaxTotalsDocs == 3

NextTotals ==
    \/ AddExpense(Users, {Fuel}, {100000, 50000}, TotalsTypes, {"transport"}, MaxTotalsDocs)
    \/ GetExpenseTotals(Users)

SpecTotals == Init /\ [][NextTotals]_vars

----------------------------------------------------------------------------
(* Category summary *)

\* n / d (d > 0) rounded to the nearest integer, a tie going to the even one:
\* round() on a value that the float holds exactly
RoundHalfEven(n, d) ==
    LET q == n \div d
        r == n % d
    IN  IF 2 * r < d THEN q
        ELSE IF 2 * r > d THEN q + 1
        ELSE IF q % 2 = 0 THEN q ELSE q + 1

\* round(x, 2) of an amount in thousandths, in hundredths
Round2(x) == RoundHalfEven(x, 10)

\* cat_total / total * 100 cut to two decimals instead of rounded, in hundredths of
\* a percent
PercentageTruncated(cat_total, total) ==
    IF total < 0 THEN (-(cat_total * 10000)) \div (-total)
    ELSE (cat_total * 10000) \div total

\* round(cat_total / total * 100, 2), in hundredths of a percent (total # 0)
Percentage(cat_total, total) ==
    IF total < 0 THEN RoundHalfEven(-(cat_total * 10000), -total)
    ELSE RoundHalfEven(cat_total * 10000, total)

\* a summary that divides whatever the total is
DividesAlways(total) == TRUE

\* `if total > 0`: whether category_summary divides by the total
Divides(total) == total > 0

\* a loop body that lacks the type filter
CategoryStepUnfiltered(acc, expense, type) ==
    LET category == expense.category
        amount == expense.amount
        old == {c \in acc.categories : c.category = category}
        cur == IF old = {} THEN [category |-> category, total |-> 0, count |-> 0]
               ELSE CHOOSE c \in old : TRUE
    IN  [categories |-> (acc.categories \ old) \cup
                           {[cur EXCEPT !.total = @ + amount, !.count = @ + 1]},
         total |-> acc.total + amount]

\* one pass of the loop of category_summary; acc is [categories, total]
CategoryStep(acc, expense, type) ==
    IF type # NoType /\ expense.type # type THEN acc
    ELSE LET category == IF "category" \in DOMAIN expense THEN expense.category
                         ELSE "uncategorized"
             amount == expense.amount
             old == {c \in acc.categories : c.category = category}
             cur == IF old = {} THEN [category |-> category, total |-> 0, count |-> 0]
                    ELSE CHOOSE c \in old : TRUE
         IN  [categories |-> (acc.categories \ old) \cup
                                {[cur EXCEPT !.total = @ + amount, !.count = @ + 1]},
              total |-> acc.total + amount]

\* the loop of category_summary over the streamed documents
RECURSIVE CategoryLoop(_, _, _)
CategoryLoop(acc, docs, type) ==
    IF docs = <<>> THEN acc
    ELSE CategoryLoop(CategoryStep(acc, Head(docs), type), Tail(docs), type)

\* the response of category_summary: a division by zero is caught by the handler's
\* except clause and answered with HTTP 400
CategorySummaryResponse(docs, userId, type) ==
    LET acc == CategoryLoop([categories |-> {}, total |-> 0], docs, type)
    IN  IF acc.categories # {} /\ Divides(acc.total) /\ acc.total = 0
        THEN [op |-> "category_summary", success |-> FALSE, status |-> 400,
              userId |-> userId, filter |-> type]
        ELSE [op |-> "category_summary", success |-> TRUE, userId |-> userId,
              filter |-> type,
              type |-> IF type # NoType THEN type ELSE "all",
              totalSpent |-> Round2(acc.total),
              categories |->
                  {[category |-> c.category, total |-> c.total, count |-> c.count,
                    percentage |-> IF Divides(acc.total)
                                   THEN Percentage(c.total, acc.total) ELSE 0]
                   : c \in acc.categories}]

category_summary(userId, type) ==
    IF outage # <<>> THEN Raise("category_summary", userId)
    ELSE /\ resp' = CategorySummaryResponse(ExpensesRef(expenses, userId), userId, type)
         /\ UNCHANGED <<expenses, merchants, now, lastSave, outage, requests>>

CategorySummary(us, types) == \E u \in us, t \in types : category_summary(u, t)

\* the categories of the summary scenarios
SummaryCategories == {"food", "transport", "rent", "fun"}

\* store size of the summary scenarios
MaxSummaryDocs == 4

NextSummary ==
    \/ AddExpense({U1}, {Fuel}, {7000, 11000}, {"personal"}, SummaryCategories,
                  MaxSummaryDocs)
    \/ CategorySummary({U1}, {NoType, "personal", "business"})

SpecSummary == Init /\ [][NextSummary]_vars

\* store size of the zero-total scenarios
MaxZeroDocs == 2

NextZero ==
    \/ AddExpense(Users, {Fuel}, {0, 7000, -7000}, {"personal", "business"},
                  {"food", "transport"}, MaxZeroDocs)
    \/ CategorySummary(Users, {NoType, "personal", "business"})

SpecZero == Init /\ [][NextZero]_vars

----------------------------------------------------------------------------
(* Monthly trend *)

\* one pass of the loop of monthly_trend; monthly_data is the dictionary as the
\* sequence of its entries in insertion order
TrendStep(monthly_data, expense, type) ==
    IF type # NoType /\ expense.type # type THEN monthly_data
    ELSE IF expense.date = <<>> THEN monthly_data
    ELSE LET month_key == Prefix(expense.date, 7)
             amount == expense.amount
         IN  IF \E j \in DOMAIN monthly_data : monthly_data[j].month = month_key
             THEN [j \in DOMAIN monthly_data |->
                      IF monthly_data[j].month = month_key
                      THEN [monthly_data[j] EXCEPT !.total = @ + amount, !.count = @ + 1]
                      ELSE monthly_data[j]]
             ELSE Append(monthly_data,
                         [month |-> month_key, total |-> amount, count |-> 1])

\* the loop of monthly_trend over the streamed documents
RECURSIVE TrendLoop(_, _, _)
TrendLoop(monthly_data, docs, type) ==
    IF docs = <<>> THEN monthly_data
    ELSE TrendLoop(TrendStep(monthly_data, Head(docs), type), Tail(docs), type)

\* entry placed into a sequence of entries sorted by month key
RECURSIVE InsertSorted(_, _)
InsertSorted(entry, seq) ==
    IF seq = <<>> THEN <<entry>>
    ELSE IF StrLess(entry.month, Head(seq).month) THEN <<entry>> \o seq
    ELSE <<Head(seq)>> \o InsertSorted(entry, Tail(seq))

\* the entries left in the order the loop met their months
unsorted(items) == items

\* sorted(monthly_data.items()): the entries by month key ascending (keys are unique)
RECURSIVE sorted(_)
sorted(items) ==
    IF items = <<>> THEN <<>>
    ELSE InsertSorted(Head(items), sorted(Tail(items)))

\* the response of monthly_trend
\* a trend that reads its first month, sorted_months[0], and so raises on an empty
\* trend
MonthlyTrendResponseFirstMonth(docs, userId, type) ==
    LET trend == sorted(TrendLoop(<<>>, docs, type))
    IN  IF trend = <<>>
        THEN [op |-> "monthly_trend", success |-> FALSE, status |-> 400,
              userId |-> userId, filter |-> type]
        ELSE [op |-> "monthly_trend", success |-> TRUE, userId |-> userId,
              filter |-> type, type |-> IF type # NoType THEN type ELSE "all",
              first |-> trend[1].month, trend |-> trend]

MonthlyTrendResponse(docs, userId, type) ==
    [op |-> "monthly_trend", success |-> TRUE, userId |-> userId, filter |-> type,
     type |-> IF type # NoType THEN type ELSE "all",
     trend |-> sorted(TrendLoop(<<>>, docs, type))]

monthly_trend(userId, type) ==
    IF outage # <<>> THEN Raise("monthly_trend", userId)
    ELSE /\ resp' = MonthlyTrendResponse(ExpensesRef(expenses, userId), userId, type)
         /\ UNCHANGED <<expenses, merchants, now, lastSave, outage, requests>>

MonthlyTrend(us, types) == \E u \in us, t \in types : monthly_trend(u, t)

\* store size of the trend scenarios
MaxTrendDocs == 3

NextTrend ==
    \/ AddExpense({U1}, {Fuel}, {100000, 50000}, {"personal", "business"}, {"transport"},
                  MaxTrendDocs)
    \/ MonthlyTrend({U1}, {NoType, "personal"})
    \/ Tick

SpecTrend == Init /\ [][NextTrend]_vars

----------------------------------------------------------------------------
(* Merchant spend *)

\* a date-only string YYYY-MM-DD, as the clients write startDate and endDate
DateOnly(year, month, day) ==
    Digits4(year) \o <<45>> \o Digits2(month) \o <<45>> \o Digits2(day)

NoDate == <<>>                                        \* date omitted (None) or empty

\* MerchantQuery (pydantic model); companyId is never read
MerchantQuery(merchant, userId, startDate, endDate) ==
    [merchant |-> merchant, userId |-> userId, startDate |-> startDate,
     endDate |-> endDate]

\* ref.where('item', '==', merchant).stream(): the documents whose item is exactly
\* the given string, in stream order
WhereItem(docs, merchant) == SelectSeq(docs, LAMBDA d : d.item = merchant)

\* a loop body that puts each expense at the front of the list
SpendAccumulateFront(acc, expense) ==
    LET amount == expense.amount
        category == expense.category
        old == {c \in acc.categories : c.category = category}
        sofar == IF old = {} THEN 0 ELSE (CHOOSE c \in old : TRUE).amount
    IN  [total_amount |-> acc.total_amount + amount,
         count |-> acc.count + 1,
         categories |-> (acc.categories \ old) \cup
                           {[category |-> category, amount |-> sofar + amount]},
         expenses_list |-> <<[date |-> expense.date, amount |-> amount,
                              category |-> category, note |-> expense.note]>>
                              \o acc.expenses_list]

\* the body of the loop of merchant_spend for a document the date filter lets through
SpendAccumulate(acc, expense) ==
    LET amount == expense.amount
        category == expense.category
        old == {c \in acc.categories : c.category = category}
        sofar == IF old = {} THEN 0 ELSE (CHOOSE c \in old : TRUE).amount
    IN  [total_amount |-> acc.total_amount + amount,
         count |-> acc.count + 1,
         categories |-> (acc.categories \ old) \cup
                           {[category |-> category, amount |-> sofar + amount]},
         expenses_list |-> Append(acc.expenses_list,
                                  [date |-> expense.date, amount |-> amount,
                                   category |-> category, note |-> expense.note])]

\* a date filter that also leaves out a document dated exactly at a bound
SpendStepExclusive(acc, expense, query) ==
    IF /\ query.startDate # NoDate /\ query.endDate # NoDate
       /\ (~StrLess(query.startDate, expense.date) \/ ~StrLess(expense.date, query.endDate))
    THEN acc
    ELSE SpendAccumulate(acc, expense)

\* one pass of the loop of merchant_spend
SpendStep(acc, expense, query) ==
    IF /\ query.startDate # NoDate /\ query.endDate # NoDate
       /\ (StrLess(expense.date, query.startDate) \/ StrLess(query.endDate, expense.date))
    THEN acc
    ELSE SpendAccumulate(acc, expense)

\* the loop of merchant_spend over the documents the query returned
RECURSIVE SpendLoop(_, _, _)
SpendLoop(acc, docs, query) ==
    IF docs = <<>> THEN acc
    ELSE SpendLoop(SpendStep(acc, Head(docs), query), Tail(docs), query)

\* the response of merchant_spend
MerchantSpendResponse(store, query) ==
    LET userId == query.userId
        merchant == Lower(query.merchant)
        docs == WhereItem(ExpensesRef(store, userId), merchant)
        acc == SpendLoop([total_amount |-> 0, count |-> 0, categories |-> {},
                          expenses_list |-> <<>>], docs, query)
    IN  [op |-> "merchant_spend", success |-> TRUE, query |-> query,
         merchant |-> query.merchant,
         totalSpent |-> Round2(acc.total_amount),
         transactionCount |-> acc.count,
         byCategory |-> acc.categories,
         expenses |-> acc.expenses_list]

merchant_spend(query) ==
    IF outage # <<>> THEN Raise("merchant_spend", query.userId)
    ELSE /\ resp' = MerchantSpendResponse(expenses, query)
         /\ UNCHANGED <<expenses, merchants, now, lastSave, outage, requests>>

MerchantSpend(us, names, ranges) ==
    \E u \in us, m \in names, r \in ranges :
        merchant_spend(MerchantQuery(m, u, r[1], r[2]))

\* the date ranges of the merchant-spend scenarios: none, and the year 2025
SpendRanges == {<<NoDate, NoDate>>, <<DateOnly(2025, 1, 1), DateOnly(2025, 12, 31)>>}

\* store size of the merchant-spend scenarios
MaxSpendDocs == 2

NextSpend ==
    \/ AddExpense({U1}, {Fuel, fuel, Shell}, {150500, 50000}, {"personal"},
                  {"transport"}, MaxSpendDocs)
    \/ MerchantSpend({U1}, {Fuel, fuel, Shell}, SpendRanges)
    \/ Tick

SpecSpend == Init /\ [][NextSpend]_vars

\* the date ranges of the date-filter scenarios: no bound, one bound only, both bounds
\* equal to the date add_expense writes at the second instant, and date-only bounds
\* ending on the day of the second instant, after it, and before it
DateRanges ==
    {<<NoDate, NoDate>>,
     <<DateOnly(2025, 1, 1), NoDate>>,
     <<NoDate, DateOnly(2024, 12, 31)>>,
     <<isoformat(Timeline[2]), isoformat(Timeline[2])>>,
     <<DateOnly(2025, 1, 1), DateOnly(2025, 3, 1)>>,
     <<DateOnly(2025, 1, 1), DateOnly(2025, 12, 31)>>,
     <<DateOnly(2024, 1, 1), DateOnly(2024, 12, 31)>>}

\* store size of the date-filter scenarios
MaxDatesDocs == 2

NextDates ==
    \/ AddExpense({U1}, {fuel, Shell}, {150500}, {"personal"}, {"transport", "food"},
                  MaxDatesDocs)
    \/ MerchantSpend({U1}, {Fuel, fuel}, DateRanges)
    \/ Tick

SpecDates == Init /\ [][NextDates]_vars

\* userId left out of the request body: MerchantQuery.userId is None
NoUser == <<>>

\* store size of the scenarios of requests without userId
MaxNoUserDocs == 2

NextNoUser ==
    \/ AddExpense({U1}, {fuel}, {150500, 50000}, {"personal"}, {"transport"},
                  MaxNoUserDocs)
    \/ MerchantSpend({U1, NoUser}, {Fuel, Shell}, SpendRanges)
    \/ Tick

SpecNoUser == Init /\ [][NextNoUser]_vars

----------------------------------------------------------------------------
(* The whole service *)

\* store size of the whole-service scenarios
MaxExpenses == 2

Next ==
    \/ AddExpense(Users, {Fuel}, {10000}, {"personal", "business"}, {"transport"},
                  MaxExpenses)
    \/ GetExpenses(Users, {NoType, "personal"})
    \/ GetExpenseTotals(Users)
    \/ MerchantSpend(Users, {Fuel, fuel}, {<<NoDate, NoDate>>})
    \/ CategorySummary(Users, {NoType, "personal"})
    \/ MonthlyTrend(Users, {NoType, "personal"})
    \/ SaveMerchant({U1}, {HDFC}, {<<"banking", "business">>})
    \/ LookupMerchant({U1}, {HDFC, hdfc})
    \/ Tick

Spec == Init /\ [][Next]_vars

----------------------------------------------------------------------------
(* Requests handled side by side *)

\* A handler shares nothing with the other handlers but the store; its one store
\* call is atomic, and what it does before and after the call can fall anywhere
\* between the steps of the other requests.

\* add_expense up to its store call: the document is built, with the date read
\* from the clock
AddExpenseBegin(r, userId, expense) ==
    /\ requests[r].pc = "idle"
    /\ requests' = [requests EXCEPT ![r] =
                        [pc |-> "store", op |-> "add_expense", userId |-> userId,
                         data |-> ExpenseData(userId, expense, now)]]
    /\ UNCHANGED <<expenses, merchants, now, resp, lastSave, outage>>

\* ref.add(expense_data): the store call of add_expense
AddExpenseStore(r, pos) ==
    /\ requests[r].pc = "store"
    /\ requests[r].op = "add_expense"
    /\ expenses' = [expenses EXCEPT
                       ![requests[r].userId] = InsertAt(@, pos, requests[r].data)]
    /\ requests' = [requests EXCEPT ![r] =
                        [pc |-> "return", op |-> "add_expense",
                         userId |-> requests[r].userId, data |-> requests[r].data,
                         result |-> [op |-> "add_expense", success |-> TRUE,
                                     userId |-> requests[r].userId,
                                     expenseId |-> pos]]]
    /\ UNCHANGED <<merchants, now, resp, lastSave, outage>>

\* the add_expense requests that have returned
Returned == {q \in DOMAIN requests : requests[q].pc = "done" /\ requests[q].op = "add_expense"}

\* get_expenses or get_expense_totals up to its store call; after is the set of
\* the add_expense requests that had returned when this request started
ReadBegin(r, op, userId) ==
    /\ requests[r].pc = "idle"
    /\ requests' = [requests EXCEPT ![r] =
                        [pc |-> "store", op |-> op, userId |-> userId,
                         after |-> Returned]]
    /\ UNCHANGED <<expenses, merchants, now, resp, lastSave, outage>>

\* stream(): the store call of get_expenses or get_expense_totals, and the loop
\* over the documents it yields
ReadStore(r) ==
    /\ requests[r].pc = "store"
    /\ requests[r].op \in {"get_expenses", "get_expense_totals"}
    /\ requests' = [requests EXCEPT ![r] =
                        [pc |-> "return", op |-> requests[r].op,
                         userId |-> requests[r].userId, after |-> requests[r].after,
                         result |-> IF requests[r].op = "get_expenses"
                                    THEN GetExpensesResponse(expenses, requests[r].userId,
                                                             NoType)
                                    ELSE TotalsResponse(expenses, requests[r].userId)]]
    /\ UNCHANGED <<expenses, merchants, now, resp, lastSave, outage>>

\* the handler returns its response, requests[r].result, to its own caller
Return(r) ==
    /\ requests[r].pc = "return"
    /\ requests' = [requests EXCEPT ![r].pc = "done"]
    /\ UNCHANGED <<expenses, merchants, now, resp, lastSave, outage>>

NextConcurrent ==
    \E r \in 1..MaxRequests :
        \/ \E a \in {10000, 25000} :
               AddExpenseBegin(r, U1, Expense(Fuel, a, "personal", "transport"))
        \/ \E pos \in 1..(Len(expenses[U1]) + 1) : AddExpenseStore(r, pos)
        \/ \E op \in {"get_expenses", "get_expense_totals"} : ReadBegin(r, op, U1)
        \/ ReadStore(r)
        \/ Return(r)

SpecConcurrent == Init /\ [][NextConcurrent]_vars

----------------------------------------------------------------------------
(* The service over a store whose calls can fail *)

\* the messages of the exceptions the store client raises
StoreErrors == {"503 Service Unavailable", "504 Deadline Exceeded"}

\* the number of failing store calls that can lie ahead
MaxOutage == 2

\* store size of the store-failure scenarios
MaxFaultDocs == 1

\* the store becomes unable to serve one more of the calls to come
StoreFails ==
    /\ Len(outage) < MaxOutage
    /\ \E e \in StoreErrors : outage' = Append(outage, e)
    /\ UNCHANGED <<expenses, merchants, now, resp, lastSave, requests>>

NextFaults ==
    \/ AddExpense({U1}, {Fuel}, {10000}, {"personal"}, {"transport"}, MaxFaultDocs)
    \/ GetExpenses({U1}, {NoType})
    \/ GetExpenseTotals({U1})
    \/ MerchantSpend({U1}, {Fuel}, {<<NoDate, NoDate>>})
    \/ CategorySummary({U1}, {NoType})
    \/ MonthlyTrend({U1}, {NoType})
    \/ SaveMerchant({U1}, {HDFC}, {<<"banking", "business">>})
    \/ LookupMerchant({U1}, {HDFC})
    \/ StoreFails

SpecFaults == Init /\ [][NextFaults]_vars

----------------------------------------------------------------------------
(* Merchant memory: properties *)

\* the (category, type) a lookup of (userId, merchant) reports, <<>> for a miss
Looked(coll, userId, merchant) ==
    LET r == LookupResponse(coll, userId, merchant)
    IN  IF r.found THEN <<r.category, r.type>> ELSE <<>>

\* C3: a lookup of (u, m') answers found, with the category and type of the latest
\* save(u, m, c, t) whose m equals m' ignoring letter case
C3_SaveLookupRoundTrip ==
    resp.op = "lookup_merchant" =>
        \A h \in lastSave.saves :
            (h.userId = resp.userId /\ h.name = Lower(resp.merchant)) =>
                (resp.found /\ resp.category = h.category /\ resp.type = h.type)

\* C4: a save for (u1, m1) leaves the lookup result of every pair (u2, m2) with
\* u2 # u1 or lower(m2) # lower(m1) as it was
C4_SaveLeavesOtherPairs ==
    [][resp'.op = "save_merchant" =>
          \A u2 \in Users, m2 \in MerchantNames :
              (u2 # resp'.userId \/ Lower(m2) # Lower(resp'.merchant)) =>
                  Looked(merchants', u2, m2) = Looked(merchants, u2, m2)]_vars

\* C5: every (userId, merchant) pair that was ever saved is found by a lookup, with
\* exactly the category and type of the most recent save for that pair
C5_LastWriteWins ==
    \A h \in lastSave.saves : Looked(merchants, h.userId, h.name) = <<h.category, h.type>>

\* C6: a save that directly repeats the previous save request (same userId,
\* merchant, category and type) changes no lookup result
C6_SaveIdempotent ==
    [][(resp.op = "save_merchant" /\ resp' = resp /\ now' = now) =>
          \A u \in Users, m \in MerchantNames :
              Looked(merchants', u, m) = Looked(merchants, u, m)]_vars

\* C6 witness: the last request repeated the save before it, at a later time than
\* the first one, and the mapping is found with the saved values
C6_Witness ==
    /\ resp.op = "save_merchant"
    /\ now > 1
    /\ lastSave.repeated
    /\ \E h \in lastSave.saves :
          /\ h.userId = resp.userId /\ h.name = Lower(resp.merchant)
          /\ Looked(merchants, resp.userId, resp.merchant) = <<h.category, h.type>>
          /\ \E d \in DocGet(merchants, MerchantDocId(resp.userId, resp.merchant)) :
                d.data.lastUsed = now

\* C12: a lookup of a (userId, merchant) pair that was never saved is a normal
\* result: success with found = false and no category or type
C12_LookupMissNotFound ==
    (/\ resp.op = "lookup_merchant"
     /\ ~\E h \in lastSave.saves :
            h.userId = resp.userId /\ h.name = Lower(resp.merchant)) =>
        /\ resp.success
        /\ ~resp.found
        /\ resp.category = "" /\ resp.type = ""

----------------------------------------------------------------------------
(* Expense totals: properties *)

\* sum of the amounts of the documents of docs at the positions idx
RECURSIVE SumAt(_, _)
SumAt(docs, idx) ==
    IF idx = {} THEN 0
    ELSE LET i == CHOOSE x \in idx : TRUE
         IN  docs[i].amount + SumAt(docs, idx \ {i})

\* positions of the documents of docs whose type is in types
OfType(docs, types) == {i \in DOMAIN docs : docs[i].type \in types}

\* C2: the totals of a user are the sum of all the amounts, of the amounts of type
\* exactly "personal" and of type exactly "business"; total is their sum plus the
\* sum of the amounts of every other type
C2_TotalsAreSums ==
    resp.op = "get_expense_totals" =>
        LET docs == expenses[resp.userId]
            others == SumAt(docs, DOMAIN docs \ OfType(docs, {"personal", "business"}))
        IN  /\ resp.totals.total = SumAt(docs, DOMAIN docs)
            /\ resp.totals.personal = SumAt(docs, OfType(docs, {"personal"}))
            /\ resp.totals.business = SumAt(docs, OfType(docs, {"business"}))
            /\ resp.totals.total = resp.totals.personal + resp.totals.business + others

\* C2 witness: a user holding a personal 100, a business 50 and a record of a third
\* type is told total 150 + that record, personal 100, business 50
C2_Witness ==
    /\ resp.op = "get_expense_totals"
    /\ Len(expenses[resp.userId]) = 3
    /\ OfType(expenses[resp.userId], {"shared"}) # {}
    /\ resp.totals.personal = 100000
    /\ resp.totals.business = 50000
    /\ resp.totals.total > 150000

----------------------------------------------------------------------------
(* Category summary: properties *)

\* the positions of the documents a summary with the given type filter includes
Included(docs, type) ==
    {i \in DOMAIN docs : type = NoType \/ docs[i].type = type}

\* sum of the percentages (hundredths of a percent) of a set of summary entries
RECURSIVE SumPercent(_)
SumPercent(cats) ==
    IF cats = {} THEN 0
    ELSE LET c == CHOOSE x \in cats : TRUE
         IN  c.percentage + SumPercent(cats \ {c})

Abs(x) == IF x < 0 THEN -x ELSE x

\* C7 as stated: the percentages sum to at most 100.01, and to 100 within 0.01
\* whenever the grand total is positive, whatever the number of categories
C7_PercentagesSumTo100 ==
    (resp.op = "category_summary" /\ resp.success) =>
        LET docs == expenses[resp.userId]
            grand == SumAt(docs, Included(docs, resp.filter))
            sum == SumPercent(resp.categories)
        IN  /\ sum <= 10000 + 1
            /\ grand > 0 => Abs(sum - 10000) <= 1

\* C7 amended: with a positive grand total the percentages sum to 100 within
\* 0.005 per category (so within 0.01 for up to three categories); with a grand
\* total that is not positive they sum to 0
C7_PercentagesWithinHalfPerCategory ==
    (resp.op = "category_summary" /\ resp.success) =>
        LET docs == expenses[resp.userId]
            grand == SumAt(docs, Included(docs, resp.filter))
            sum == SumPercent(resp.categories)
        IN  IF grand > 0
            THEN /\ 2 * Abs(sum - 10000) <= Cardinality(resp.categories)
                 /\ Cardinality(resp.categories) <= 3 => Abs(sum - 10000) <= 1
            ELSE sum = 0

\* C7 witness: a summary over four categories (7, 7, 7 and 11 of a total of 32)
\* whose percentages 21.88, 21.88, 21.88 and 34.38 sum to 100.02
C7_Witness ==
    /\ resp.op = "category_summary" /\ resp.success
    /\ Cardinality(resp.categories) = 4
    /\ resp.totalSpent = 3200
    /\ SumPercent(resp.categories) = 10002

\* C8: a summary whose included records total 0 succeeds and reports percentage 0
\* for every category
C8_ZeroTotalZeroPercent ==
    resp.op = "category_summary" =>
        LET docs == expenses[resp.userId]
            grand == SumAt(docs, Included(docs, resp.filter))
        IN  grand = 0 =>
                /\ resp.success
                /\ \A c \in resp.categories : c.percentage = 0

\* C8 witness: a summary over two categories whose amounts cancel to a total of 0
C8_Witness ==
    /\ resp.op = "category_summary" /\ resp.success
    /\ Cardinality(resp.categories) = 2
    /\ \E c \in resp.categories : c.total # 0
    /\ SumAt(expenses[resp.userId], Included(expenses[resp.userId], resp.filter)) = 0
    /\ \A c \in resp.categories : c.percentage = 0

----------------------------------------------------------------------------
(* Merchant spend: properties *)

\* C1: a merchant-spend query with no date range, or with a range that holds the
\* dates of all the matching records, counts exactly the records whose item equals
\* the query merchant after lowercasing both, and totals their amounts
C1_MerchantMatchIgnoresCase ==
    resp.op = "merchant_spend" =>
        LET q == resp.query
            docs == expenses[q.userId]
            match == {i \in DOMAIN docs : Lower(docs[i].item) = Lower(q.merchant)}
            ranged == q.startDate # NoDate /\ q.endDate # NoDate
            inside == \A i \in match : /\ ~StrLess(docs[i].date, q.startDate)
                                        /\ ~StrLess(q.endDate, docs[i].date)
        IN  (~ranged \/ inside) =>
                /\ resp.success
                /\ resp.transactionCount = Cardinality(match)
                /\ resp.totalSpent = Round2(SumAt(docs, match))

----------------------------------------------------------------------------
(* Monthly trend: properties *)

\* the positions of the dated documents a trend with the given type filter includes
Dated(docs, type) == {i \in Included(docs, type) : docs[i].date # <<>>}

\* the positions among idx of the documents whose date starts with month
InMonth(docs, idx, month) == {i \in idx : Prefix(docs[i].date, 7) = month}

MonthNumber(key) ==
    ((key[1] - 48) * 1000 + (key[2] - 48) * 100 + (key[3] - 48) * 10 + (key[4] - 48)) * 12
        + (key[6] - 48) * 10 + (key[7] - 48)

\* C10: a monthly-trend request answers only with months that fall within the 12
\* months before the time of the request
C10_TrendWithinLast12Months ==
    [][(resp'.op = "monthly_trend" /\ now' = now) =>
          \A j \in DOMAIN resp'.trend :
              LET month == MonthNumber(resp'.trend[j].month)
                  current == Timeline[now].year * 12 + Timeline[now].month
              IN  current - 12 < month /\ month <= current]_vars

----------------------------------------------------------------------------
(* Merchant spend: the date filter *)

\* s <= t in the order of string comparison
StrLessEq(s, t) == s = t \/ StrLess(s, t)

\* the positions of the documents the store query of a merchant-spend request returns
Matching(docs, q) == {i \in DOMAIN docs : docs[i].item = Lower(q.merchant)}

\* the positions among the matching documents that a request counts when the date
\* filter is on exactly when both bounds are given, and lets through the documents
\* with startDate <= date <= endDate
InRange(docs, q) ==
    {i \in Matching(docs, q) :
        (q.startDate # NoDate /\ q.endDate # NoDate) =>
            /\ docs[i].date # <<>>
            /\ StrLessEq(q.startDate, docs[i].date)
            /\ StrLessEq(docs[i].date, q.endDate)}

\* C11: a merchant-spend request filters by date exactly when both startDate and
\* endDate are given; it then counts a matching record iff startDate <= date <=
\* endDate by string comparison, bounds included; with a bound missing or empty it
\* counts every matching record whatever its date
C11_DateFilterInclusive ==
    resp.op = "merchant_spend" =>
        LET q == resp.query
            docs == expenses[q.userId]
            counted == InRange(docs, q)
        IN  /\ resp.success
            /\ resp.transactionCount = Cardinality(counted)
            /\ resp.totalSpent = Round2(SumAt(docs, counted))
            /\ Len(resp.expenses) = Cardinality(counted)
            /\ {resp.expenses[j].date : j \in DOMAIN resp.expenses} =
                   {docs[i].date : i \in counted}

\* C11 witness: a request with both bounds equal to the date of one of two matching
\* records counts that record and leaves the other out
C11_Witness ==
    /\ resp.op = "merchant_spend"
    /\ resp.query.startDate # NoDate
    /\ resp.query.endDate = resp.query.startDate
    /\ LET docs == expenses[resp.query.userId]
       IN  /\ Cardinality(Matching(docs, resp.query)) = 2
           /\ \E i \in DOMAIN docs : docs[i].date = resp.query.startDate
    /\ resp.transactionCount = 1

\* C11 witness of the open case: a request with only startDate given counts a
\* matching record dated before startDate
C11_WitnessOneBound ==
    /\ resp.op = "merchant_spend"
    /\ resp.query.startDate # NoDate
    /\ resp.query.endDate = NoDate
    /\ resp.transactionCount = 1
    /\ StrLess(resp.expenses[1].date, resp.query.startDate)

\* the calendar day of a stored date
Day(date) == Prefix(date, 10)

\* C19: a merchant-spend request with date-only startDate and endDate counts every
\* matching expense created on a calendar day from startDate through endDate,
\* the endDate day included
C19_EndDateDayIncluded ==
    (/\ resp.op = "merchant_spend"
     /\ Len(resp.query.startDate) = 10
     /\ Len(resp.query.endDate) = 10) =>
        LET q == resp.query
            docs == expenses[q.userId]
            days == {i \in Matching(docs, q) :
                        /\ StrLessEq(q.startDate, Day(docs[i].date))
                        /\ StrLessEq(Day(docs[i].date), q.endDate)}
        IN  resp.transactionCount = Cardinality(days)

----------------------------------------------------------------------------
(* The expense store: properties *)

\* C13: every stored expense has a non-negative amount (an add_expense with a
\* negative amount stores nothing)
C13_AmountsNonNegative ==
    \A u \in Users : \A i \in DOMAIN expenses[u] : expenses[u][i].amount >= 0

\* seq without its element at position p
Removed(seq, p) == SubSeq(seq, 1, p - 1) \o SubSeq(seq, p + 1, Len(seq))

\* new holds one document more than old, in one collection, and every document of
\* old as it was and in the same order
AddedOne(old, new) ==
    \E u \in DOMAIN old :
        /\ \A v \in DOMAIN old \ {u} : new[v] = old[v]
        /\ Len(new[u]) = Len(old[u]) + 1
        /\ \E p \in DOMAIN new[u] : Removed(new[u], p) = old[u]

\* C14: the expense set is append-only: a successful add_expense adds exactly one
\* record and leaves every existing record as it was, and no other request adds,
\* changes or removes an expense record
C14_AppendOnly ==
    [][IF resp'.op = "add_expense" /\ resp'.success /\ now' = now /\ outage' = outage
       THEN AddedOne(expenses, expenses')
       ELSE expenses' = expenses]_vars

\* C14 witness: an add_expense has put its record in front of a record that was
\* stored at an earlier time
C14_Witness ==
    /\ resp.op = "add_expense"
    /\ resp.success
    /\ resp.expenseId = 1
    /\ LET docs == expenses[resp.userId]
       IN  /\ Len(docs) = 2
           /\ StrLess(docs[2].date, docs[1].date)

\* the store with the collections of every user but v emptied
Isolated(store, v) == [u \in DOMAIN store |-> IF u = v THEN store[u] ELSE <<>>]

\* C15: every record lies in the collection of the userId it carries, and the
\* response of a listing or an aggregation for a user is the one the same request
\* gets from the store that holds that user's records only
C15_PartitionedByUser ==
    /\ \A u \in Users : \A i \in DOMAIN expenses[u] : expenses[u][i].userId = u
    /\ resp.op = "get_expenses" =>
          resp = GetExpensesResponse(Isolated(expenses, resp.userId), resp.userId,
                                     resp.filter)
    /\ resp.op = "get_expense_totals" =>
          resp = TotalsResponse(Isolated(expenses, resp.userId), resp.userId)
    /\ resp.op = "merchant_spend" =>
          resp = MerchantSpendResponse(Isolated(expenses, resp.query.userId), resp.query)
    /\ resp.op = "category_summary" =>
          resp = CategorySummaryResponse(
                     ExpensesRef(Isolated(expenses, resp.userId), resp.userId),
                     resp.userId, resp.filter)
    /\ resp.op = "monthly_trend" =>
          resp = MonthlyTrendResponse(
                     ExpensesRef(Isolated(expenses, resp.userId), resp.userId),
                     resp.userId, resp.filter)

\* C15 witness: the totals of a user count that user's one record while another
\* user holds a record too
C15_Witness ==
    /\ resp.op = "get_expense_totals"
    /\ Len(expenses[resp.userId]) = 1
    /\ resp.totals.total = expenses[resp.userId][1].amount
    /\ \E u \in Users \ {resp.userId} : Len(expenses[u]) = 1

\* C16: the four aggregations answer a user who has no expense records with
\* success and zero-valued aggregates
C16_EmptyInputZeroAggregates ==
    /\ (resp.op = "get_expense_totals" /\ expenses[resp.userId] = <<>>) =>
          /\ resp.success
          /\ resp.totals = [total |-> 0, personal |-> 0, business |-> 0]
    /\ (resp.op = "category_summary" /\ expenses[resp.userId] = <<>>) =>
          /\ resp.success
          /\ resp.totalSpent = 0
          /\ resp.categories = {}
    /\ (resp.op = "monthly_trend" /\ expenses[resp.userId] = <<>>) =>
          /\ resp.success
          /\ resp.trend = <<>>
    /\ (resp.op = "merchant_spend" /\ expenses[resp.query.userId] = <<>>) =>
          /\ resp.success
          /\ resp.totalSpent = 0
          /\ resp.transactionCount = 0
          /\ resp.byCategory = {}
          /\ resp.expenses = <<>>

\* C16 witness: a monthly trend asked for a user with no records while the other
\* user has some
C16_Witness ==
    /\ resp.op = "monthly_trend"
    /\ resp.success
    /\ expenses[resp.userId] = <<>>
    /\ \E u \in Users : expenses[u] # <<>>

\* C18 (last part): the unfiltered list a user gets right after an add_expense of
\* theirs has the newly added record as its first element
C18_NewRecordFirst ==
    [][(/\ resp.op = "add_expense" /\ resp.success
        /\ resp'.op = "get_expenses" /\ resp'.success
        /\ resp'.userId = resp.userId /\ resp'.filter = NoType) =>
           resp'.expenses[1].id = resp.expenseId]_vars

\* C18 (first part): the list holds exactly the user's records that pass the type
\* filter, no date below the date of a later element, and count is its length
C18_ListedByDate ==
    (resp.op = "get_expenses" /\ resp.success) =>
        LET docs == expenses[resp.userId]
            list == resp.expenses
        IN  /\ resp.count = Len(list)
            /\ Len(list) = Cardinality(Included(docs, resp.filter))
            /\ {list[j].id : j \in DOMAIN list} = Included(docs, resp.filter)
            /\ \A j \in DOMAIN list : list[j] = [id |-> list[j].id] @@ docs[list[j].id]
            /\ \A j, k \in DOMAIN list : j < k => ~StrLess(list[j].date, list[k].date)

----------------------------------------------------------------------------
(* Store failures: properties *)

\* C17: a request handled while the store fails is answered with HTTP 400 carrying
\* the message of the store's error and no success envelope; it makes the failing
\* call once (one error is used up) and writes nothing; the requests after the
\* failures are answered with success
C17_StoreFailureIs400 ==
    [][/\ (outage # <<>> /\ Len(outage') <= Len(outage)) =>
             /\ ~resp'.success
             /\ resp'.status = 400
             /\ resp'.detail = Head(outage)
             /\ outage' = Tail(outage)
             /\ expenses' = expenses
             /\ merchants' = merchants
       /\ (outage = <<>> /\ outage' = <<>>) => resp'.success]_vars

\* C17 witness: after a stored expense, a request met the second of two failures
\* in a row and was answered 400 with its message; the store is as it was and
\* has recovered
C17_Witness ==
    /\ resp.op \in {"add_expense", "get_expenses", "get_expense_totals",
                     "merchant_spend", "category_summary", "monthly_trend",
                     "save_merchant", "lookup_merchant"}
    /\ ~resp.success
    /\ resp.status = 400
    /\ resp.detail = "504 Deadline Exceeded"
    /\ outage = <<>>
    /\ Len(expenses[U1]) = 1

----------------------------------------------------------------------------
(* Category summary: the type filter and the sums *)

\* the category a summary counts a record under
CategoryOf(doc) == IF "category" \in DOMAIN doc THEN doc.category ELSE "uncategorized"

\* the positions among idx of the documents counted under category
InCategory(docs, idx, category) == {i \in idx : CategoryOf(docs[i]) = category}

\* sum of the counts of a set of summary entries
RECURSIVE SumCounts(_)
SumCounts(cats) ==
    IF cats = {} THEN 0
    ELSE LET c == CHOOSE x \in cats : TRUE
         IN  c.count + SumCounts(cats \ {c})

\* sum of the totals of a set of summary entries
RECURSIVE SumTotals(_)
SumTotals(cats) ==
    IF cats = {} THEN 0
    ELSE LET c == CHOOSE x \in cats : TRUE
         IN  c.total + SumTotals(cats \ {c})

\* C20: a category summary includes exactly the records whose type equals the
\* filter (all of them without a filter), each under its category ("uncategorized"
\* when it has none); the per-category counts add up to the number of included
\* records, and the per-category totals add up to the grand total that, rounded,
\* is reported as totalSpent
C20_SummaryFilterAndSums ==
    (resp.op = "category_summary" /\ resp.success) =>
        LET docs == expenses[resp.userId]
            inc == Included(docs, resp.filter)
            cats == resp.categories
        IN  /\ {c.category : c \in cats} = {CategoryOf(docs[i]) : i \in inc}
            /\ \A c, d \in cats : c.category = d.category => c = d
            /\ \A c \in cats :
                  /\ c.count = Cardinality(InCategory(docs, inc, c.category))
                  /\ c.total = SumAt(docs, InCategory(docs, inc, c.category))
            /\ SumCounts(cats) = Cardinality(inc)
            /\ SumTotals(cats) = SumAt(docs, inc)
            /\ resp.totalSpent = Round2(SumTotals(cats))

\* C20 witness: a summary filtered by type over a collection of two records of
\* different types counts one record, under one category, with a non-zero total
C20_Witness ==
    /\ resp.op = "category_summary"
    /\ resp.success
    /\ resp.filter # NoType
    /\ LET docs == expenses[resp.userId]
       IN  /\ Len(docs) = 2
           /\ docs[1].type # docs[2].type
    /\ SumCounts(resp.categories) = 1
    /\ resp.totalSpent # 0

----------------------------------------------------------------------------
(* Merchant spend: consistency of the response *)

\* what a merchant-spend response lists of a document
ListedOf(doc) ==
    [date |-> doc.date, amount |-> doc.amount, category |-> doc.category,
     note |-> doc.note]

\* the documents of docs at the positions idx, from position i on, as listed and in
\* the order of docs
RECURSIVE ListedFrom(_, _, _)
ListedFrom(docs, idx, i) ==
    IF i > Len(docs) THEN <<>>
    ELSE (IF i \in idx THEN <<ListedOf(docs[i])>> ELSE <<>>) \o ListedFrom(docs, idx, i + 1)

\* sum of the amounts of a sequence of listed expenses
RECURSIVE SumListed(_)
SumListed(list) == IF list = <<>> THEN 0 ELSE Head(list).amount + SumListed(Tail(list))

\* sum of the amounts of a set of byCategory entries
RECURSIVE SumByCategory(_)
SumByCategory(cats) ==
    IF cats = {} THEN 0
    ELSE LET c == CHOOSE x \in cats : TRUE
         IN  c.amount + SumByCategory(cats \ {c})

\* C21: a merchant-spend response is consistent with itself: transactionCount is
\* the length of the expenses list, the byCategory values add up to the sum of the
\* listed amounts, which totalSpent rounds, every listed expense passed the
\* merchant and the date filter, and the list is in the order of the store
C21_SpendResponseConsistent ==
    (resp.op = "merchant_spend" /\ resp.success) =>
        LET q == resp.query
            docs == expenses[q.userId]
            list == resp.expenses
        IN  /\ resp.transactionCount = Len(list)
            /\ SumByCategory(resp.byCategory) = SumListed(list)
            /\ resp.totalSpent = Round2(SumListed(list))
            /\ \A c, d \in resp.byCategory : c.category = d.category => c = d
            /\ {c.category : c \in resp.byCategory} =
                   {list[j].category : j \in DOMAIN list}
            /\ list = ListedFrom(docs, InRange(docs, q), 1)

\* C21 witness: a request with both bounds lists two expenses of different
\* categories in the order of the store, and totalSpent is the rounded sum of
\* the two amounts
C21_Witness ==
    /\ resp.op = "merchant_spend"
    /\ resp.query.startDate # NoDate /\ resp.query.endDate # NoDate
    /\ Len(resp.expenses) = 2
    /\ Cardinality(resp.byCategory) = 2
    /\ resp.expenses[1].category = expenses[resp.query.userId][1].category
    /\ resp.totalSpent = Round2(resp.expenses[1].amount + resp.expenses[2].amount)

\* C22: a merchant-spend request without userId is answered with a client error,
\* not with a success envelope
C22_MissingUserIdRejected ==
    (resp.op = "merchant_spend" /\ resp.query.userId = NoUser) =>
        /\ ~resp.success
        /\ resp.status \in 400..499

----------------------------------------------------------------------------
(* Requests handled side by side: properties *)

\* the add_expense requests for userId whose store call is done
Stored(userId) ==
    {q \in DOMAIN requests :
        /\ requests[q].pc \in {"return", "done"}
        /\ requests[q].op = "add_expense"
        /\ requests[q].userId = userId}

\* sum of the amounts of the documents of a set of add_expense requests
RECURSIVE SumAdded(_)
SumAdded(S) ==
    IF S = {} THEN 0
    ELSE LET q == CHOOSE x \in S : TRUE
         IN  requests[q].data.amount + SumAdded(S \ {q})

\* list holds the document of the add_expense request q
Lists(list, q) ==
    \E j \in DOMAIN list :
        \A f \in DOMAIN requests[q].data : list[j][f] = requests[q].data[f]

\* C23: no add_expense is lost, however the requests interleave: every add whose
\* store call is done has a record of its own, and a get_expenses or
\* get_expense_totals request answers with the records of a set of adds that
\* holds every add that had returned when the request started (count is their
\* number, totals.total the sum of their amounts)
C23_NoAddLost ==
    /\ \A u \in Users : Len(expenses[u]) = Cardinality(Stored(u))
    /\ \A r \in DOMAIN requests :
          (/\ requests[r].pc \in {"return", "done"}
           /\ requests[r].op \in {"get_expenses", "get_expense_totals"}) =>
              \E S \in SUBSET Stored(requests[r].userId) :
                  /\ requests[r].after \subseteq S
                  /\ requests[r].result.success
                  /\ requests[r].op = "get_expenses" =>
                        /\ requests[r].result.count = Cardinality(S)
                        /\ Len(requests[r].result.expenses) = Cardinality(S)
                        /\ \A q \in S : Lists(requests[r].result.expenses, q)
                  /\ requests[r].op = "get_expense_totals" =>
                        requests[r].result.totals.total = SumAdded(S)

\* C23 witness: two adds of different amounts have returned, and a list request
\* that started after both has returned count 2 with both records
C23_Witness ==
    \E a, b, r \in DOMAIN requests :
        /\ a # b
        /\ requests[a].pc = "done" /\ requests[a].op = "add_expense"
        /\ requests[b].pc = "done" /\ requests[b].op = "add_expense"
        /\ requests[a].data.amount # requests[b].data.amount
        /\ requests[r].pc = "done" /\ requests[r].op = "get_expenses"
        /\ requests[r].after = {a, b}
        /\ requests[r].result.count = 2
        /\ Lists(requests[r].result.expenses, a)
        /\ Lists(requests[r].result.expenses, b)

====
